---- MODULE Spec2Model ----
(***************************************************************************)
(* A model of src/main.rs: the request decoder (parse_request), the router *)
(* (handle_request), the content negotiator (Response::integrate_request), *)
(* the response writer (Response::write_to_stream) and the bounded         *)
(* connection set (ThreadPool::execute / handle_connection).               *)
(*                                                                         *)
(* Text is a sequence of atoms.  An atom is one character ("a", " ", ":",  *)
(* ",", "/") or one keyword whose inner characters no operation of the     *)
(* program looks at ("GET", "HTTP/1.1", "echo", "gzip", "Accept-Encoding").*)
(* Bodies are made of one-character atoms, so Len is their byte length.    *)
(***************************************************************************)
EXTENDS Integers, Sequences, FiniteSets, TLC

\* Number of connections the listener yields in the pool specification.
NumConns == 3
\* Largest capacity ThreadPool::new is given.
MaxCapacity == 2

----------------------------------------------------------------------------
(* Option and the text helpers of the standard library the code calls.     *)

None == <<"None">>
Some(x) == <<"Some", x>>
IsSome(o) == o[1] = "Some"
Unwrap(o) == o[2]

Whitespace == {" "}
\* A byte that is not valid UTF-8.
InvalidByte == "\\xff"

RECURSIVE SplitAcc(_, _, _, _)
SplitAcc(s, seps, cur, acc) ==
    IF s = <<>> THEN Append(acc, cur)
    ELSE IF Head(s) \in seps THEN SplitAcc(Tail(s), seps, <<>>, Append(acc, cur))
    ELSE SplitAcc(Tail(s), seps, Append(cur, Head(s)), acc)

\* str::split: the pieces between separators, empty pieces included.
split(s, seps) == SplitAcc(s, seps, <<>>, <<>>)

NonEmpty(piece) == Len(piece) > 0

\* str::split_whitespace: the non-empty pieces between whitespace.
split_whitespace(s) == SelectSeq(split(s, Whitespace), NonEmpty)

RECURSIVE TrimStart(_)
TrimStart(s) ==
    IF s # <<>> /\ Head(s) \in Whitespace THEN TrimStart(Tail(s)) ELSE s

RECURSIVE TrimEnd(_)
TrimEnd(s) ==
    IF s # <<>> /\ s[Len(s)] \in Whitespace THEN TrimEnd(SubSeq(s, 1, Len(s) - 1)) ELSE s

\* str::trim
trim(s) == TrimEnd(TrimStart(s))

\* str::split_once(":"): the text before and after the first colon.
split_once(s, sep) ==
    IF \E i \in 1..Len(s) : s[i] = sep
    THEN LET i == CHOOSE j \in 1..Len(s) : s[j] = sep /\ \A k \in 1..(j - 1) : s[k] # sep
         IN  Some(<<SubSeq(s, 1, i - 1), SubSeq(s, i + 1, Len(s))>>)
    ELSE None

\* Vec<String>::join(", ")
RECURSIVE join(_)
join(list) ==
    IF list = <<>> THEN <<>>
    ELSE IF Len(list) = 1 THEN list[1]
    ELSE list[1] \o <<",", " ">> \o join(Tail(list))

\* usize::to_string
to_string(n) == <<ToString(n)>>

\* HashMap<String, String> as a set of <<key, value>> pairs, one per key.
get(map, key) ==
    IF \E p \in map : p[1] = key
    THEN Some((CHOOSE p \in map : p[1] = key)[2])
    ELSE None
insert(map, key, value) == {p \in map : p[1] # key} \cup {<<key, value>>}
remove(map, key) == {p \in map : p[1] # key}
contains_key(map, key) == \E p \in map : p[1] = key

----------------------------------------------------------------------------
(* Wire codec, decode side.                                                *)

\* Largest Content-Length value the decoder is given.
MaxContentLength == 3

Ok(v) == [tag |-> "Ok", value |-> v]
Err(e) == [tag |-> "Err", value |-> e]
\* The thread unwinds (an unwrap or an index out of range).
Panic == [tag |-> "Panic", value |-> <<>>]
\* The thread waits for bytes the peer never sends.
Blocked == [tag |-> "Blocked", value |-> <<>>]

InvalidMethod(raw_method) == [kind |-> "InvalidMethod", raw |-> raw_method]
InvalidVersion(raw_version) == [kind |-> "InvalidVersion", raw |-> raw_version]
InvalidStatusLine(raw_status_line) == [kind |-> "InvalidStatusLine", raw |-> raw_status_line]

\* impl Display for HttpException
HttpException_fmt(e) ==
    CASE e.kind = "InvalidMethod" -> <<"Invalid Method: ">> \o e.raw
      [] e.kind = "InvalidVersion" -> <<"Invalid Version: ">> \o e.raw
      [] e.kind = "InvalidStatusLine" -> <<"Invalid Status Line: ">> \o e.raw

parse_method(raw_method) ==
    CASE raw_method = <<"GET">> -> Ok("Get")
      [] raw_method = <<"POST">> -> Ok("Post")
      [] OTHER -> Err(InvalidMethod(raw_method))

parse_version(raw_version) ==
    IF raw_version = <<"HTTP/1.1">> THEN Ok("Http1_1")
    ELSE Err(InvalidVersion(raw_version))

\* impl Display for ContentEncoding
ContentEncoding_fmt(encoding) == <<"gzip">>

RECURSIVE filter_map_encoding(_)
filter_map_encoding(pieces) ==
    IF pieces = <<>> THEN <<>>
    ELSE (IF trim(Head(pieces)) = <<"gzip">> THEN <<"Gzip">> ELSE <<>>)
         \o filter_map_encoding(Tail(pieces))

parse_content_encoding(raw_content_encoding) ==
    LET content_encoding_list ==
            filter_map_encoding(split(trim(raw_content_encoding), {","}))
    IN  IF content_encoding_list = <<>> THEN None ELSE Some(content_encoding_list)

AcceptEncoding == <<"Accept-Encoding">>

\* validate_headers that blanks an unrecognised list instead of removing the
\* header.
validate_headers_blanking(headers) ==
    IF contains_key(headers, AcceptEncoding)
    THEN LET parsed == parse_content_encoding(Unwrap(get(headers, AcceptEncoding)))
         IN  IF IsSome(parsed)
             THEN insert(headers, AcceptEncoding,
                         join([i \in 1..Len(Unwrap(parsed)) |->
                                  ContentEncoding_fmt(Unwrap(parsed)[i])]))
             ELSE insert(headers, AcceptEncoding, <<>>)
    ELSE headers

\* validate_headers that rewrites a recognised list but leaves an unrecognised
\* one in the map.
validate_headers_keeping(headers) ==
    IF contains_key(headers, AcceptEncoding)
    THEN LET parsed == parse_content_encoding(Unwrap(get(headers, AcceptEncoding)))
         IN  IF IsSome(parsed)
             THEN insert(headers, AcceptEncoding,
                         join([i \in 1..Len(Unwrap(parsed)) |->
                                  ContentEncoding_fmt(Unwrap(parsed)[i])]))
             ELSE headers
    ELSE headers

\* Request::validate_headers, on the header map.
validate_headers(headers) ==
    IF contains_key(headers, AcceptEncoding)
    THEN LET parsed == parse_content_encoding(Unwrap(get(headers, AcceptEncoding)))
         IN  IF IsSome(parsed)
             THEN insert(headers, AcceptEncoding,
                         join([i \in 1..Len(Unwrap(parsed)) |->
                                  ContentEncoding_fmt(Unwrap(parsed)[i])]))
             ELSE remove(headers, AcceptEncoding)
    ELSE headers

\* str::parse::<usize>().ok()
parse_usize(text) ==
    IF \E n \in 0..MaxContentLength : to_string(n) = text
    THEN Some(CHOOSE n \in 0..MaxContentLength : to_string(n) = text)
    ELSE None

RECURSIVE take_while_nonempty(_)
take_while_nonempty(lines) ==
    IF lines = <<>> \/ Head(lines) = <<>> THEN <<>>
    ELSE <<Head(lines)>> \o take_while_nonempty(Tail(lines))

HasInvalidByte(text) == \E i \in 1..Len(text) : text[i] = InvalidByte

\* The header map collected from the header lines: lines without a colon are
\* skipped, key and value are trimmed, the last line of a key wins.
collect_headers(raw_headers) ==
    LET Colon(i) == IsSome(split_once(raw_headers[i], ":"))
        Key(i) == trim(Unwrap(split_once(raw_headers[i], ":"))[1])
        Val(i) == trim(Unwrap(split_once(raw_headers[i], ":"))[2])
    IN  {<<Key(i), Val(i)>> :
            i \in {j \in 1..Len(raw_headers) :
                     /\ Colon(j)
                     /\ \A k \in (j + 1)..Len(raw_headers) :
                            Colon(k) => Key(k) # Key(j)}}

\* The zero-filled rest of a body buffer read_exact could not fill.
ZeroFill(n) == [i \in 1..n |-> "\\0"]

\* A peer is what one client sends: the lines of its header block (an empty
\* line ends the block), the bytes after it, and whether it then shuts its
\* sending side (close) or keeps the connection open and silent.
parse_request(peer) ==
    LET raw_request == take_while_nonempty(peer.lines)
        ended == \E i \in 1..Len(peer.lines) : peer.lines[i] = <<>>
    IN
    IF \E i \in 1..Len(raw_request) : HasInvalidByte(raw_request[i]) THEN Panic
    ELSE IF ~ended /\ ~peer.close THEN Blocked
    ELSE IF raw_request = <<>> THEN Panic
    ELSE
    LET status_line == raw_request[1]
        raw_headers == Tail(raw_request)
        tokens == split_whitespace(status_line)
    IN
    IF Len(tokens) < 3 THEN Panic
    ELSE
    LET first3 == SubSeq(tokens, 1, 3) IN
    IF Len(first3) # 3 THEN Err(InvalidStatusLine(status_line))
    ELSE
    LET raw_method == first3[1]
        request_target == first3[2]
        raw_version == first3[3]
        headers == collect_headers(raw_headers)
        cl == get(headers, <<"Content-Length">>)
        content_length ==
            IF IsSome(cl) /\ IsSome(parse_usize(Unwrap(cl)))
            THEN Unwrap(parse_usize(Unwrap(cl))) ELSE 0
        sent == IF ended THEN peer.body ELSE <<>>
    IN
    IF Len(sent) < content_length /\ ~peer.close THEN Blocked
    ELSE
    LET body == IF Len(sent) >= content_length
                THEN SubSeq(sent, 1, content_length)
                ELSE sent \o ZeroFill(content_length - Len(sent))
        method == parse_method(raw_method)
        version == parse_version(raw_version)
    IN
    IF method.tag = "Err" THEN method
    ELSE IF version.tag = "Err" THEN version
    ELSE IF HasInvalidByte(body) THEN Panic
    ELSE Ok([http_method |-> method.value,
             request_target |-> request_target,
             http_version |-> version.value,
             headers |-> validate_headers(headers),
             body |-> body])

----------------------------------------------------------------------------
(* Response and the content negotiator.                                    *)

\* impl Display for ContentType
ContentType_fmt(content_type) ==
    IF content_type = "TextPlain" THEN <<"text/plain">>
    ELSE <<"application/octet-stream">>

\* impl Display for StatusCode
StatusCode_fmt(status_code) ==
    CASE status_code = "Ok" -> <<"200 OK">>
      [] status_code = "Created" -> <<"201 Created">>
      [] status_code = "NotFound" -> <<"404 Not Found">>
      [] status_code = "ServerError" -> <<"500 Server Error">>

\* impl Display for HttpVersion
HttpVersion_fmt(http_version) == <<"HTTP/1.1">>

ContentType == <<"Content-Type">>
ContentLength == <<"Content-Length">>
ContentEncoding == <<"Content-Encoding">>

Response_new(http_version, status_code, body) ==
    [http_version |-> http_version, status_code |-> status_code,
     headers |-> {}, body |-> body]

update(response, http_version, status_code, body) ==
    [response EXCEPT !.http_version = http_version,
                     !.status_code = status_code,
                     !.body = body]

\* A default response of 200 instead of 404.
new_200 == Response_new("Http1_1", "Ok", <<>>)

new_404 == Response_new("Http1_1", "NotFound", <<>>)

add_header(response, header_name, header_value) ==
    [response EXCEPT !.headers = insert(@, header_name, header_value)]

\* GzEncoder::new(vec![], Compression::default()), write_all, finish: one gzip
\* member.  Ten header bytes, the deflate stream, then CRC32 and ISIZE.  The
\* deflate stream of a short body without repeats is one fixed-Huffman block
\* of literals: 3 + 8n + 7 bits, that is n + 2 bytes.
GzEncode(body) ==
    <<"1f", "8b", "08", "00", "00", "00", "00", "00", "00", "ff">>
    \o <<"final-fixed-block">> \o body \o <<"end-of-block">>
    \o <<"crc0", "crc1", "crc2", "crc3">>
    \o <<ToString(Len(body)), "00", "00", "00">>

\* compress_body that leaves the handler's Content-Length in place.
compress_body_stale_length(response, content_encoding) ==
    IF \E i \in 1..Len(content_encoding) : content_encoding[i] = "Gzip"
    THEN [response EXCEPT !.body = GzEncode(@)]
    ELSE response

compress_body(response, content_encoding) ==
    IF \E i \in 1..Len(content_encoding) : content_encoding[i] = "Gzip"
    THEN LET compressed == [response EXCEPT !.body = GzEncode(@)]
         IN  add_header(compressed, ContentLength, to_string(Len(compressed.body)))
    ELSE response

\* Response::integrate_request; Panic when the unwrap meets None.
integrate_request(response, request) ==
    LET content_encoding == get(request.headers, AcceptEncoding) IN
    IF IsSome(content_encoding)
    THEN LET parsed == parse_content_encoding(Unwrap(content_encoding))
         IN  IF IsSome(parsed)
             THEN Ok(add_header(compress_body(response, Unwrap(parsed)),
                                ContentEncoding, Unwrap(content_encoding)))
             ELSE Panic
    ELSE Ok(response)

\* success that also declares the body's encoding, as identity.
success_identity_encoded(response, body) ==
    LET set == [response EXCEPT !.body = body, !.status_code = "Ok"]
    IN  add_header(add_header(add_header(set, ContentType, ContentType_fmt("TextPlain")),
                              ContentLength, to_string(Len(set.body))),
                   ContentEncoding, <<"identity">>)

\* success that labels the body application/octet-stream.
success_octet_stream(response, body) ==
    LET set == [response EXCEPT !.body = body, !.status_code = "Ok"]
    IN  add_header(add_header(set, ContentType, ContentType_fmt("ApplicationOctetStream")),
                   ContentLength, to_string(Len(set.body)))

\* Response::success
success(response, body) ==
    LET set == [response EXCEPT !.body = body, !.status_code = "Ok"]
    IN  add_header(add_header(set, ContentType, ContentType_fmt("TextPlain")),
                   ContentLength, to_string(Len(set.body)))

----------------------------------------------------------------------------
(* Router.  The storage is a map from path to contents; io is what the     *)
(* file system does on this call: read_ok (read_to_string succeeds on an   *)
(* existing file), open_ok (OpenOptions::open succeeds) and written (the   *)
(* number of body bytes write_all gets onto the file before it returns).   *)

request_path_vec(request_target) == SelectSeq(split(request_target, {"/"}), NonEmpty)

\* format!("{}{}", config.directory.unwrap_or(String::new()), name)
file_path(config, name) ==
    (IF IsSome(config.directory) THEN Unwrap(config.directory) ELSE <<>>) \o name

read_to_string(files, path, io) ==
    IF contains_key(files, path) /\ io.read_ok /\ ~HasInvalidByte(Unwrap(get(files, path)))
    THEN Ok(Unwrap(get(files, path)))
    ELSE Err(<<>>)

\* The match of handle_request (all of it but the final integrate_request):
\* the handler's response and the storage it leaves.
handle_request_match(request, config, files, io) ==
    LET path_vec == request_path_vec(request.request_target)
        response == new_404
    IN
    IF request.http_method = "Get"
    THEN IF Len(path_vec) = 0
         THEN [response |-> success(response, <<>>), files |-> files]
         ELSE IF Len(path_vec) = 1 /\ path_vec[1] = <<"user-agent">>
         THEN LET ua == get(request.headers, <<"User-Agent">>)
              IN  [response |-> success(response, IF IsSome(ua) THEN Unwrap(ua) ELSE <<>>),
                   files |-> files]
         ELSE IF Len(path_vec) = 2 /\ path_vec[1] = <<"echo">>
         THEN [response |-> success(response, path_vec[2]), files |-> files]
         ELSE IF Len(path_vec) = 2 /\ path_vec[1] = <<"files">>
         THEN LET contents == read_to_string(files, file_path(config, path_vec[2]), io)
              IN  IF contents.tag = "Ok"
                  THEN LET filled == [response EXCEPT !.status_code = "Ok",
                                                      !.body = contents.value]
                       IN  [response |->
                               add_header(
                                   add_header(filled, ContentType,
                                              ContentType_fmt("ApplicationOctetStream")),
                                   ContentLength, to_string(Len(filled.body))),
                            files |-> files]
                  ELSE [response |-> response, files |-> files]
         ELSE [response |-> response, files |-> files]
    ELSE IF Len(path_vec) = 2 /\ path_vec[1] = <<"files">>
         THEN IF io.open_ok
              THEN [response |-> update(response, "Http1_1", "Created", <<>>),
                    files |-> insert(files, file_path(config, path_vec[2]),
                                     SubSeq(request.body, 1,
                                            IF io.written < Len(request.body)
                                            THEN io.written ELSE Len(request.body)))]
              ELSE [response |-> update(response, "Http1_1", "ServerError", <<>>),
                    files |-> files]
         ELSE [response |-> response, files |-> files]

\* handle_request: the match, then the negotiator.
handle_request(request, config, files, io) ==
    LET handled == handle_request_match(request, config, files, io)
    IN  [result |-> integrate_request(handled.response, request),
         files |-> handled.files]

----------------------------------------------------------------------------
(* Wire codec, encode side.                                                *)

\* stringify_headers: one "name: value\r\n" line per header, in the map's
\* iteration order, which the set leaves open.
stringify_headers(headers) ==
    {p[1] \o <<":", " ">> \o p[2] \o <<"\r\n">> : p \in headers}

\* Response::write_to_stream: what one call puts on the connection.
write_to_stream(response) ==
    [status_line |-> HttpVersion_fmt(response.http_version) \o <<" ">>
                     \o StatusCode_fmt(response.status_code) \o <<"\r\n">>,
     headers |-> stringify_headers(response.headers),
     body |-> response.body]

----------------------------------------------------------------------------
(* What clients send.                                                      *)

Line(method, target, version) == <<method, " ">> \o target \o <<" ", version>>
HeaderLine(name, value) == <<name, ":", " ">> \o value
OptLine(name, opt) == IF IsSome(opt) THEN <<HeaderLine(name, Unwrap(opt))>> ELSE <<>>

EchoTarget == <<"/", "echo", "/", "a", "b", "c">>
Targets ==
    {<<"/">>, <<"/", "user-agent">>, EchoTarget, <<"/", "echo", "/", "a", "b", "c", "/">>,
     <<"/", "echo">>, <<"/", "echo", "/">>, <<"/", "files", "/", "f">>,
     <<"/", "unknown", "/", "x", "/", "y", "/", "z">>}
Methods == {"GET", "POST", "DELETE"}

ShortStatusLine == <<"GET", " ", "/", "x">>
LongStatusLine == <<"GET", " ", "/", "x", " ", "HTTP/1.1", " ", "extra">>
StatusLines ==
    {Line(m, t, "HTTP/1.1") : m \in Methods, t \in Targets}
    \cup {Line("GET", EchoTarget, "HTTP/1.0"), Line("DELETE", EchoTarget, "HTTP/1.0")}
    \cup {ShortStatusLine, LongStatusLine, <<"GET">>}

AcceptEncodings ==
    {None, Some(<<"gzip">>), Some(<<"bogus">>), Some(<<"gzip", ",", " ", "bogus">>),
     Some(<<"bogus", ",", "gzip", ",", "gzip">>), Some(<<>>)}
UserAgents == {None, Some(<<"f", "o", "o">>)}
Bodies == {[length |-> None, body |-> <<>>],
           [length |-> Some(<<"2">>), body |-> <<"h", "i">>]}

\* A complete request: status line, headers, blank line, body; the client
\* then waits for the response.
Complete(status_line, accept_encoding, user_agent, b) ==
    [lines |-> <<status_line>> \o OptLine("User-Agent", user_agent)
               \o OptLine("Accept-Encoding", accept_encoding)
               \o OptLine("Content-Length", b.length) \o << <<>> >>,
     body |-> b.body, close |-> FALSE]

EchoLine == Line("GET", EchoTarget, "HTTP/1.1")
NoBody == [length |-> None, body |-> <<>>]

\* Clients that do not send one complete request.
SilentPeer == [lines |-> <<EchoLine>>, body |-> <<>>, close |-> FALSE]
HalfPeer == [lines |-> <<EchoLine>>, body |-> <<>>, close |-> TRUE]
EmptyPeer == [lines |-> << <<>> >>, body |-> <<>>, close |-> FALSE]
GonePeer == [lines |-> <<>>, body |-> <<>>, close |-> TRUE]
ShortBodyPeer ==
    [lines |-> <<Line("POST", <<"/", "files", "/", "f">>, "HTTP/1.1"),
                 HeaderLine("Content-Length", <<"3">>), <<>> >>,
     body |-> <<"h", "i">>, close |-> TRUE]
BinaryBodyPeer ==
    [lines |-> <<Line("POST", <<"/", "files", "/", "f">>, "HTTP/1.1"),
                 HeaderLine("Content-Length", <<"1">>), <<>> >>,
     body |-> <<InvalidByte>>, close |-> FALSE]
\* A repeated header and a line without a colon.
RepeatPeer ==
    [lines |-> <<EchoLine, HeaderLine("Accept-Encoding", <<"gzip">>), <<"junk">>,
                 HeaderLine("Accept-Encoding", <<"bogus">>), <<>> >>,
     body |-> <<>>, close |-> FALSE]

Peers ==
    {Complete(sl, ae, ua, b) :
        sl \in StatusLines, ae \in AcceptEncodings, ua \in UserAgents, b \in Bodies}
    \cup {SilentPeer, HalfPeer, EmptyPeer, GonePeer, ShortBodyPeer, BinaryBodyPeer,
          RepeatPeer}

\* The clients of the pool specification.
PoolPeers ==
    {Complete(EchoLine, None, None, NoBody),
     Complete(Line("DELETE", EchoTarget, "HTTP/1.1"), None, None, NoBody),
     Complete(ShortStatusLine, None, None, NoBody),
     SilentPeer}

\* The clients of the storage specification: they upload to and download
\* from one file name.
StoreConns == 2
FileTarget == <<"/", "files", "/", "f">>
Upload == [length |-> Some(<<"2">>), body |-> <<"h", "i">>]
StorePeers ==
    {Complete(Line("POST", FileTarget, "HTTP/1.1"), None, None, Upload),
     Complete(Line("GET", FileTarget, "HTTP/1.1"), None, None, NoBody),
     BinaryBodyPeer}

\* The clients of the slow-peer specification: one that completes its
\* request, one that sends a status line and then nothing while holding the
\* connection open, one that sends a status line and shuts down its side.
SlowPeers == {Complete(EchoLine, None, None, NoBody), SilentPeer, HalfPeer}

Configs == {[directory |-> None], [directory |-> Some(<<"/tmp/">>)]}
Stores == {{}, {<<file_path(c, <<"f">>), <<"o", "l", "d">>>> : c \in Configs}}
IO == [read_ok : BOOLEAN, open_ok : BOOLEAN, written : 0..MaxContentLength]

----------------------------------------------------------------------------
(* The server.                                                             *)

VARIABLES
    max_connections,      \* ThreadPool.max_connections
    current_connections,  \* ThreadPool.current_connections: the handles, by connection
    config,               \* Config
    files,                \* the file system under the storage routes
    peers,                \* listener.incoming(): what each client sends
    accepted,             \* how many connections the listener has yielded
    pc,                   \* where each connection's thread is
    request,              \* handle_connection's request
    response,             \* handle_request's response
    wire                  \* what has been written to each connection

vars == <<max_connections, current_connections, config, files, peers, accepted,
          pc, request, response, wire>>

Conns == DOMAIN peers

\* is_finished that gives up on a thread still waiting for its request.
is_finished_or_waiting(pcs, handle) == pcs[handle] \in {"finished", "panicked", "decode"}

\* is_finished that is false for a thread that panicked.
is_finished_clean_exit(pcs, handle) == pcs[handle] = "finished"

\* JoinHandle::is_finished
is_finished(pcs, handle) == pcs[handle] \in {"finished", "panicked"}

\* retain that sweeps nothing: finished handles stay in the set.
retain_all(connections, pcs) == connections

\* retain with the test dropped: every handle is swept, finished or not.
retain_none(connections, pcs) == <<>>

\* self.current_connections.retain(|jh| !jh.is_finished())
retain(connections, pcs) ==
    LET Running(handle) == ~is_finished(pcs, handle)
    IN  SelectSeq(connections, Running)

\* execute with <= for <: one thread too many.
execute_off_by_one(connections, max, pcs, stream) ==
    LET live == retain(connections, pcs)
    IN  IF Len(live) <= max
        THEN [current_connections |-> Append(live, stream), spawned |-> TRUE]
        ELSE [current_connections |-> live, spawned |-> FALSE]

\* execute that keeps the stream it refuses in the set, to be served later.
execute_deferring(connections, max, pcs, stream) ==
    LET live == retain(connections, pcs)
    IN  [current_connections |-> Append(live, stream), spawned |-> Len(live) < max]

\* ThreadPool::execute: the handles it leaves and whether it spawned a thread
\* for the stream.
execute(connections, max, pcs, stream) ==
    LET live == retain(connections, pcs)
    IN  IF Len(live) < max
        THEN [current_connections |-> Append(live, stream), spawned |-> TRUE]
        ELSE [current_connections |-> live, spawned |-> FALSE]

TypeOK ==
    /\ max_connections \in 1..MaxCapacity
    /\ accepted \in 0..Len(peers)
    /\ pc \in [Conns -> {"incoming", "refused", "decode", "route", "negotiate",
                         "encode", "finished", "panicked"}]

InitServer ==
    /\ max_connections \in 1..MaxCapacity
    /\ current_connections = <<>>
    /\ accepted = 0
    /\ pc = [c \in Conns |-> "incoming"]
    /\ request = [c \in Conns |-> None]
    /\ response = [c \in Conns |-> None]
    /\ wire = [c \in Conns |-> <<>>]

\* The pool under NumConns clients.
Init ==
    /\ peers \in [1..NumConns -> PoolPeers]
    /\ config = [directory |-> None]
    /\ files = {}
    /\ InitServer

\* One client, any request, any storage.
InitRequest ==
    /\ peers \in [1..1 -> Peers]
    /\ config \in Configs
    /\ files \in Stores
    /\ InitServer

\* Uploads and downloads of one file name, over StoreConns connections.
InitStore ==
    /\ peers \in [1..StoreConns -> StorePeers]
    /\ config \in Configs
    /\ files \in Stores
    /\ InitServer

\* The pool under clients that may never finish their header block.
InitSlow ==
    /\ peers \in [1..NumConns -> SlowPeers]
    /\ config = [directory |-> None]
    /\ files = {}
    /\ InitServer

\* main's loop body: the listener yields the next stream, pool.execute(stream).
\* A refused stream is dropped at the end of execute, which closes it.
Execute ==
    /\ accepted < Len(peers)
    /\ LET stream == accepted + 1
           done == execute(current_connections, max_connections, pc, stream)
       IN  /\ current_connections' = done.current_connections
           /\ pc' = [pc EXCEPT ![stream] = IF done.spawned THEN "decode" ELSE "refused"]
           /\ accepted' = stream
    /\ UNCHANGED <<max_connections, config, files, peers, request, response, wire>>

\* handle_connection: parse_request.  On Err the function returns without
\* writing; a panic unwinds the thread.
Decode(c) ==
    /\ pc[c] = "decode"
    /\ LET parsed == parse_request(peers[c])
       IN  /\ parsed.tag # "Blocked"
           /\ pc' = [pc EXCEPT ![c] = CASE parsed.tag = "Ok" -> "route"
                                        [] parsed.tag = "Err" -> "finished"
                                        [] OTHER -> "panicked"]
           /\ request' = [request EXCEPT ![c] = IF parsed.tag = "Ok"
                                                THEN parsed.value ELSE @]
    /\ UNCHANGED <<max_connections, current_connections, config, files, peers,
                   accepted, response, wire>>

\* handle_request up to its match: the route handler and its storage call.
Route(c) ==
    /\ pc[c] = "route"
    /\ \E io \in IO :
         LET handled == handle_request_match(request[c], config, files, io)
         IN  /\ response' = [response EXCEPT ![c] = handled.response]
             /\ files' = handled.files
    /\ pc' = [pc EXCEPT ![c] = "negotiate"]
    /\ UNCHANGED <<max_connections, current_connections, config, peers, accepted,
                   request, wire>>

\* handle_request's last statement: response.integrate_request(&request);
\* the request is dropped when handle_request returns.
Negotiate(c) ==
    /\ pc[c] = "negotiate"
    /\ LET negotiated == integrate_request(response[c], request[c])
       IN  /\ pc' = [pc EXCEPT ![c] = IF negotiated.tag = "Ok" THEN "encode"
                                       ELSE "panicked"]
           /\ response' = [response EXCEPT ![c] = IF negotiated.tag = "Ok"
                                                  THEN negotiated.value ELSE @]
    /\ request' = [request EXCEPT ![c] = None]
    /\ UNCHANGED <<max_connections, current_connections, config, files, peers,
                   accepted, wire>>

\* Encode that keeps the connection alive: after the write the thread reads
\* the next request.
EncodeKeepAlive(c) ==
    /\ pc[c] = "encode"
    /\ wire' = [wire EXCEPT ![c] = Append(@, write_to_stream(response[c]))]
    /\ pc' = [pc EXCEPT ![c] = "decode"]
    /\ UNCHANGED <<max_connections, current_connections, config, files, peers,
                   accepted, request, response>>

\* Encode whose thread takes its own handle out of the set as it ends.
EncodeDeregister(c) ==
    /\ pc[c] = "encode"
    /\ wire' = [wire EXCEPT ![c] = Append(@, write_to_stream(response[c]))]
    /\ pc' = [pc EXCEPT ![c] = "finished"]
    /\ current_connections' = SelectSeq(current_connections, LAMBDA h : h # c)
    /\ UNCHANGED <<max_connections, config, files, peers, accepted, request, response>>

\* response.write_to_stream(&mut stream), then the thread ends.  The client
\* keeps its end open, so the writes succeed.
Encode(c) ==
    /\ pc[c] = "encode"
    /\ wire' = [wire EXCEPT ![c] = Append(@, write_to_stream(response[c]))]
    /\ pc' = [pc EXCEPT ![c] = "finished"]
    /\ UNCHANGED <<max_connections, current_connections, config, files, peers,
                   accepted, request, response>>

Next ==
    \/ Execute
    \/ \E c \in Conns : Decode(c)
    \/ \E c \in Conns : Route(c)
    \/ \E c \in Conns : Negotiate(c)
    \/ \E c \in Conns : Encode(c)

Spec == Init /\ [][Next]_vars
SpecRequest == InitRequest /\ [][Next]_vars
SpecStore == InitStore /\ [][Next]_vars
SpecSlow == InitSlow /\ [][Next]_vars

----------------------------------------------------------------------------
(* Properties.                                                             *)

Range(seq) == {seq[i] : i \in 1..Len(seq)}
Terminated(c) == pc[c] \in {"finished", "panicked"}
\* The handles of the set whose thread has not ended.
Live == {h \in Range(current_connections) : ~Terminated(h)}
Served == {c \in Conns : wire[c] # <<>>}

\* C1: the in-flight set never holds more than max_connections handles, and
\* a thread is started only by execute, for the stream the listener has just
\* yielded, and only when the handles left after the sweep of finished ones
\* number strictly fewer than max_connections.
C1_BoundedSet ==
    /\ [](Len(current_connections) <= max_connections)
    /\ [][\A c \in Conns :
            (pc[c] = "incoming" /\ pc'[c] = "decode") =>
                /\ accepted' = c /\ accepted = c - 1
                /\ Cardinality(Live) < max_connections
                /\ current_connections' = Append(SelectSeq(current_connections,
                                                           LAMBDA h : h \in Live), c)]_vars

\* C1 witness: a full set, with a thread started by the last execute.
C1_Witness ==
    /\ Len(current_connections) = max_connections
    /\ max_connections = MaxCapacity
    /\ pc[accepted] = "decode"

\* C2: when max_connections + 1 connections arrive and none of the earlier
\* threads has ended when the last of them is submitted, that last one is
\* refused and the ones before it all got a thread; the refused one is never
\* written to, at most max_connections connections are served, and once the
\* threads have ended exactly max_connections are served, each with one
\* response (the requests being ones parse_request decodes).
C2_SimultaneousAdmission ==
    /\ [][(/\ accepted = max_connections
           /\ accepted' = max_connections + 1
           /\ \A c \in 1..max_connections : ~Terminated(c))
          => /\ pc'[max_connections + 1] = "refused"
             /\ \A c \in 1..max_connections : pc'[c] \notin {"incoming", "refused"}
             /\ Len(current_connections') = max_connections]_vars
    /\ [](\A last \in Conns :
            (last = max_connections + 1 /\ pc[last] = "refused") =>
                /\ wire[last] = <<>>
                /\ Cardinality(Served \cap (1..last)) <= max_connections
                /\ (\A c \in 1..max_connections :
                        parse_request(peers[c]).tag = "Ok" /\ pc[c] = "finished")
                   => /\ Served \cap (1..last) = 1..max_connections
                      /\ \A c \in 1..max_connections : Len(wire[c]) = 1)

\* C2 witness: capacity 2, three connections, the third refused, the first two
\* served.
C2_Witness ==
    /\ max_connections = 2
    /\ accepted >= 3
    /\ pc[3] = "refused"
    /\ pc[1] = "finished" /\ pc[2] = "finished"
    /\ Len(wire[1]) = 1 /\ Len(wire[2]) = 1

\* C3: there is no waiting queue.  A stream submitted while max_connections
\* threads are live is refused in that very step and is not put in the set;
\* a refused connection stays refused for ever, no thread ever runs for it,
\* and nothing is ever written to it; the set holds only connections that
\* got a thread.
C3_NoQueue ==
    /\ [][\A c \in Conns :
            (accepted' = c /\ accepted = c - 1 /\ Cardinality(Live) >= max_connections)
              => pc'[c] = "refused" /\ c \notin Range(current_connections')]_vars
    /\ [][\A c \in Conns :
            pc[c] = "refused" => pc'[c] = "refused" /\ wire'[c] = <<>>]_vars
    /\ [](\A c \in Conns :
            /\ pc[c] = "refused" => wire[c] = <<>> /\ request[c] = None
            /\ c \in Range(current_connections) => pc[c] \notin {"incoming", "refused"})

\* C3 witness: a refused connection, still unserved after a slot has become
\* free and been given to a later connection.
C3_Witness ==
    \E c \in Conns :
        /\ pc[c] = "refused"
        /\ wire[c] = <<>>
        /\ \E d \in Conns : d > c /\ pc[d] = "finished" /\ wire[d] # <<>>

\* C4: a connection's thread goes through decode, route, negotiate, encode in
\* that order and then ends; it never decodes again; the only write is the
\* one response of the encode step, so a thread that ends after its request
\* was decoded has written exactly one response, and no thread ever writes
\* more than one.
C4_Pipeline ==
    /\ [][\A c \in Conns :
            pc'[c] # pc[c] =>
                \/ pc[c] = "incoming" /\ pc'[c] \in {"decode", "refused"}
                \/ pc[c] = "decode" /\ pc'[c] \in {"route", "finished", "panicked"}
                \/ pc[c] = "route" /\ pc'[c] = "negotiate"
                \/ pc[c] = "negotiate" /\ pc'[c] \in {"encode", "panicked"}
                \/ pc[c] = "encode" /\ pc'[c] = "finished"]_vars
    /\ [][\A c \in Conns :
            wire'[c] # wire[c] =>
                /\ pc[c] = "encode" /\ pc'[c] = "finished"
                /\ wire[c] = <<>>
                /\ wire'[c] = <<write_to_stream(response[c])>>]_vars
    /\ [](\A c \in Conns :
            /\ Len(wire[c]) <= 1
            /\ (pc[c] = "finished" /\ parse_request(peers[c]).tag = "Ok")
               => Len(wire[c]) = 1
            /\ pc[c] \in {"decode", "route", "negotiate", "encode"} => wire[c] = <<>>)

\* C4 witness: a thread that has ended with its one response written.
C4_Witness ==
    \E c \in Conns :
        /\ pc[c] = "finished"
        /\ Len(wire[c]) = 1
        /\ parse_request(peers[c]).tag = "Ok"

----------------------------------------------------------------------------
(* What a client sent, read off its lines.                                 *)

HeaderBlock(peer) == take_while_nonempty(peer.lines)
EndsHeaderBlock(peer) == \E i \in 1..Len(peer.lines) : peer.lines[i] = <<>>
StatusTokens(peer) ==
    IF HeaderBlock(peer) = <<>> THEN <<>> ELSE split_whitespace(HeaderBlock(peer)[1])
IsAcceptEncodingLine(line) ==
    /\ IsSome(split_once(line, ":"))
    /\ trim(Unwrap(split_once(line, ":"))[1]) = AcceptEncoding
AcceptEncodingValues(peer) ==
    {trim(Unwrap(split_once(HeaderBlock(peer)[i], ":"))[2]) :
        i \in {j \in 2..Len(HeaderBlock(peer)) : IsAcceptEncodingLine(HeaderBlock(peer)[j])}}
HasToken(value, token) ==
    \E i \in 1..Len(split(value, {","})) : trim(split(value, {","})[i]) = token
\* The value of the client's Accept-Encoding header: of the last one, when
\* it sent several.
LastAcceptEncoding(peer) ==
    LET at == {j \in 2..Len(HeaderBlock(peer)) : IsAcceptEncodingLine(HeaderBlock(peer)[j])}
    IN  IF at = {} THEN None
        ELSE Some(trim(Unwrap(split_once(
                 HeaderBlock(peer)[CHOOSE j \in at : \A k \in at : k <= j], ":"))[2]))
\* The client's Accept-Encoding lists gzip.
AcceptsGzip(peer) ==
    /\ IsSome(LastAcceptEncoding(peer))
    /\ HasToken(Unwrap(LastAcceptEncoding(peer)), <<"gzip">>)
\* The client sent Accept-Encoding, and no token it lists is supported.
UnsupportedOnly(peer) ==
    /\ AcceptEncodingValues(peer) # {}
    /\ \A v \in AcceptEncodingValues(peer) : ~HasToken(v, <<"gzip">>)
\* The same client without its Accept-Encoding header lines.
WithoutAcceptEncoding(peer) ==
    [peer EXCEPT !.lines = SelectSeq(@, LAMBDA line : ~IsAcceptEncodingLine(line))]
HeaderNames(message) == {line[1] : line \in message.headers}
Responded(c) == pc[c] = "finished" /\ wire[c] # <<>>

\* C5: in every response handle_request returns, and in every response on
\* the wire, a non-empty body comes with a Content-Length header whose value
\* is the length of that body, the body as it stands after compression.
C5_ContentLength ==
    \A c \in Conns :
        /\ pc[c] = "encode" =>
              (response[c].body # <<>> =>
                  get(response[c].headers, ContentLength)
                      = Some(to_string(Len(response[c].body))))
        /\ \A i \in 1..Len(wire[c]) :
              wire[c][i].body # <<>> =>
                  {line \in wire[c][i].headers : line[1] = "Content-Length"}
                      = {<<"Content-Length", ":", " ",
                           ToString(Len(wire[c][i].body)), "\r\n">>}

\* C5 witness: a written response whose body is the compressed echo value.
C5_Witness ==
    \E c \in Conns :
        /\ Responded(c)
        /\ wire[c][1].body = GzEncode(<<"a", "b", "c">>)
        /\ <<"Content-Length", ":", " ", "23", "\r\n">> \in wire[c][1].headers

\* C6 (the claim as stated): whenever the client's Accept-Encoding lists gzip,
\* the negotiator replaces the handler's body by its gzip encoding, applied
\* once, sets Content-Length to the compressed length and sets
\* Content-Encoding to exactly "gzip".
C6_GzipNegotiated ==
    [][\A c \in Conns :
          (pc[c] = "negotiate" /\ pc'[c] # "negotiate" /\ AcceptsGzip(peers[c])) =>
              /\ pc'[c] = "encode"
              /\ response'[c].body = GzEncode(response[c].body)
              /\ get(response'[c].headers, ContentLength)
                    = Some(to_string(Len(response'[c].body)))
              /\ get(response'[c].headers, ContentEncoding) = Some(<<"gzip">>)]_vars

\* C7: a request whose Accept-Encoding headers list only unsupported tokens
\* is handled as the same request without those headers: it decodes to the
\* same Request, fails only where that one fails, and its response (status,
\* headers, body, and what is written) is the response handle_request gives
\* the request without the header under the same storage outcome.
C7_UnsupportedIgnored ==
    \A c \in Conns :
        UnsupportedOnly(peers[c]) =>
            LET bare == parse_request(WithoutAcceptEncoding(peers[c])) IN
            /\ pc[c] = "route" => bare.tag = "Ok" /\ request[c] = bare.value
            /\ pc[c] = "panicked" => bare.tag = "Panic"
            /\ (pc[c] = "finished" /\ wire[c] = <<>>) => bare.tag = "Err"
            /\ (pc[c] = "encode" \/ Responded(c)) =>
                  /\ bare.tag = "Ok"
                  /\ \E io \in IO :
                        LET h == handle_request(bare.value, config, files, io) IN
                        /\ h.result.tag = "Ok"
                        /\ h.result.value = response[c]
                        /\ h.files = files
                        /\ Responded(c) => wire[c] = <<write_to_stream(h.result.value)>>

\* C7 witness: the echo request with Accept-Encoding: bogus, answered
\* uncompressed.
C7_Witness ==
    \E c \in Conns :
        /\ UnsupportedOnly(peers[c])
        /\ <<"bogus">> \in AcceptEncodingValues(peers[c])
        /\ Responded(c)
        /\ wire[c][1].body = <<"a", "b", "c">>
        /\ HeaderNames(wire[c][1]) = {"Content-Type", "Content-Length"}

\* The rows of the routing table, on the method token and the non-empty
\* segments of the target.
Segments(target) == SelectSeq(split(target, {"/"}), NonEmpty)
MatchesRow(method, segments) ==
    \/ /\ method = <<"GET">>
       /\ \/ segments = <<>>
          \/ segments = << <<"user-agent">> >>
          \/ Len(segments) = 2 /\ segments[1] \in {<<"echo">>, <<"files">>}
    \/ /\ method = <<"POST">>
       /\ Len(segments) = 2 /\ segments[1] = <<"files">>
\* A complete HTTP/1.1 request whose method and target match no row.
Unmatched(peer) ==
    /\ EndsHeaderBlock(peer)
    /\ Len(StatusTokens(peer)) = 3
    /\ StatusTokens(peer)[3] = <<"HTTP/1.1">>
    /\ ~MatchesRow(StatusTokens(peer)[1], Segments(StatusTokens(peer)[2]))

\* C8 (the claim as stated): every request that matches no row of the table
\* is answered with a 404 that has an empty body and no headers.
C8_UnmatchedIs404 ==
    \A c \in Conns :
        (Unmatched(peers[c]) /\ Terminated(c)) =>
            wire[c] = <<write_to_stream(new_404)>>

\* C8 (amended): a GET or POST request that matches no row is answered with
\* status 404; the body is empty and there are no headers unless its
\* Accept-Encoding lists gzip, in which case the body is the gzip encoding of
\* the empty body and the headers are Content-Length and Content-Encoding.
\* A request with any other method (DELETE) is not routed: decoding fails with
\* InvalidMethod and nothing is written.
C8_UnmatchedAmended ==
    \A c \in Conns :
        (Unmatched(peers[c]) /\ Terminated(c)) =>
            LET method == StatusTokens(peers[c])[1] IN
            IF method \notin {<<"GET">>, <<"POST">>}
            THEN /\ pc[c] = "finished"
                 /\ wire[c] = <<>>
                 /\ parse_request(peers[c]).tag = "Err"
                 /\ parse_request(peers[c]).value = InvalidMethod(method)
            ELSE /\ pc[c] = "finished"
                 /\ Len(wire[c]) = 1
                 /\ wire[c][1].status_line = <<"HTTP/1.1", " ", "404 Not Found", "\r\n">>
                 /\ IF AcceptsGzip(peers[c])
                    THEN /\ wire[c][1].body = GzEncode(<<>>)
                         /\ HeaderNames(wire[c][1]) = {"Content-Length", "Content-Encoding"}
                    ELSE /\ wire[c][1].body = <<>>
                         /\ wire[c][1].headers = {}

\* C8 witness: GET /unknown/x/y/z, answered with the bare 404.
C8_Witness ==
    \E c \in Conns :
        /\ Unmatched(peers[c])
        /\ StatusTokens(peers[c])[1] = <<"GET">>
        /\ Len(Segments(StatusTokens(peers[c])[2])) = 4
        /\ Responded(c)
        /\ wire[c] = <<write_to_stream(new_404)>>

\* C9 (the claim as stated): when decoding fails with an HttpException, the
\* thread has written the exception's description to the connection by the
\* time it ends.
C9_DiagnosticWritten ==
    \A c \in Conns :
        (pc[c] = "finished" /\ parse_request(peers[c]).tag = "Err") =>
            wire[c] = <<HttpException_fmt(parse_request(peers[c]).value)>>

\* C10 (the claim as stated): a status line that does not split into exactly
\* three tokens makes parse_request return InvalidStatusLine carrying the
\* line, so the thread ends without a Request and without going on to route.
C10_InvalidStatusLine ==
    \A c \in Conns :
        (/\ EndsHeaderBlock(peers[c])
         /\ HeaderBlock(peers[c]) # <<>>
         /\ Len(StatusTokens(peers[c])) # 3
         /\ pc[c] \notin {"incoming", "refused", "decode"})
        => /\ pc[c] = "finished"
           /\ wire[c] = <<>>
           /\ parse_request(peers[c]).tag = "Err"
           /\ parse_request(peers[c]).value = InvalidStatusLine(HeaderBlock(peers[c])[1])

----------------------------------------------------------------------------
(* Routes and storage.                                                     *)

\* A complete HTTP/1.1 request with this method token whose target has these
\* many non-empty segments.
WellFormed(peer, method) ==
    /\ EndsHeaderBlock(peer)
    /\ Len(StatusTokens(peer)) = 3
    /\ StatusTokens(peer)[1] = method
    /\ StatusTokens(peer)[3] = <<"HTTP/1.1">>
TargetSegments(peer) == Segments(StatusTokens(peer)[2])
StatusLineOf(status) == <<"HTTP/1.1", " ", status, "\r\n">>

\* C11 (the claim as stated): GET with an empty segment list, sent without
\* Accept-Encoding, is answered 200 with an empty body and neither
\* Content-Type nor Content-Length.
C11_RootNoContentHeaders ==
    \A c \in Conns :
        (/\ WellFormed(peers[c], <<"GET">>)
         /\ TargetSegments(peers[c]) = <<>>
         /\ AcceptEncodingValues(peers[c]) = {}
         /\ Terminated(c))
        => /\ Responded(c)
           /\ wire[c][1].status_line = StatusLineOf("200 OK")
           /\ wire[c][1].body = <<>>
           /\ "Content-Type" \notin HeaderNames(wire[c][1])
           /\ "Content-Length" \notin HeaderNames(wire[c][1])

\* The route step of connection c, on a request for ["files", name].
FilesRouteStep(c, method) ==
    /\ pc[c] = "route" /\ pc'[c] = "negotiate"
    /\ request[c].http_method = method
    /\ Len(Segments(request[c].request_target)) = 2
    /\ Segments(request[c].request_target)[1] = <<"files">>
RoutedPath(c) == file_path(config, Segments(request[c].request_target)[2])

\* C13 (the claim as stated): a GET of a file the storage cannot read is
\* answered 404; a POST whose bytes do not all reach the file, because the
\* open or the write failed, is answered 500; and a thread that has decoded
\* its request always goes on to write its response.
C13_StorageFailures ==
    /\ [][\A c \in Conns :
            /\ (FilesRouteStep(c, "Get") /\ ~contains_key(files, RoutedPath(c)))
                  => response'[c].status_code = "NotFound"
            /\ (FilesRouteStep(c, "Post")
                /\ get(files', RoutedPath(c)) # Some(request[c].body))
                  => response'[c].status_code = "ServerError"]_vars
    /\ [][\A c \in Conns :
            pc[c] \in {"route", "negotiate", "encode"} => pc'[c] # "panicked"]_vars

\* A complete upload to, or download from, /files/<name>, sent without
\* Accept-Encoding.
FileRequest(peer, method) ==
    /\ WellFormed(peer, method)
    /\ Len(TargetSegments(peer)) = 2
    /\ TargetSegments(peer)[1] = <<"files">>
    /\ AcceptEncodingValues(peer) = {}
FileName(peer) == TargetSegments(peer)[2]
\* The uploads to this name that the route stage has handled.
Uploaded(name) ==
    {p \in Conns : /\ FileRequest(peers[p], <<"POST">>)
                   /\ FileName(peers[p]) = name
                   /\ pc[p] \in {"negotiate", "encode", "finished"}}

\* C12 (the claim as stated): an upload POST /files/<name> of any data is
\* answered, by 201 with an empty body unless the storage refuses it (500);
\* a 201 means the file now holds exactly the uploaded data; and a download
\* GET /files/<name> routed after exactly one such upload to that name is
\* answered 200 with exactly that data, unless the storage fails the read.
C12_UploadThenDownload ==
    /\ [](\A p \in Conns :
            (FileRequest(peers[p], <<"POST">>) /\ Terminated(p))
            => /\ Responded(p)
               /\ \/ wire[p][1].status_line = StatusLineOf("500 Server Error")
                  \/ /\ wire[p][1].status_line = StatusLineOf("201 Created")
                     /\ wire[p][1].body = <<>>)
    /\ [][\A p \in Conns :
            (/\ FileRequest(peers[p], <<"POST">>)
             /\ pc[p] = "route" /\ pc'[p] = "negotiate"
             /\ response'[p].status_code = "Created")
            => get(files', file_path(config, FileName(peers[p]))) = Some(peers[p].body)]_vars
    /\ [][\A g \in Conns :
            (/\ FileRequest(peers[g], <<"GET">>)
             /\ pc[g] = "route" /\ pc'[g] = "negotiate"
             /\ Cardinality(Uploaded(FileName(peers[g]))) = 1
             /\ \A p \in Uploaded(FileName(peers[g])) : response[p].status_code = "Created")
            => \/ response'[g].status_code = "NotFound"
               \/ /\ response'[g].status_code = "Ok"
                  /\ \A p \in Uploaded(FileName(peers[g])) :
                        response'[g].body = peers[p].body]_vars

----------------------------------------------------------------------------
(* The pool under failing and slow threads.                                *)

\* The thread of c ended without a response: parse_request returned Err, or
\* the thread panicked.
Failed(c) == pc[c] = "panicked" \/ (pc[c] = "finished" /\ wire[c] = <<>>)
\* The response this client gets when it is the server's only client.
Alone(peer) ==
    {write_to_stream(handle_request(parse_request(peer).value, config, files, io).result.value) :
        io \in IO}

\* C14: a thread that fails, by an Err of parse_request or by a panic, is
\* isolated.  The listener goes on: execute can run for every connection
\* still to come.  The failing step changes nothing of any other connection,
\* and every response written is the one its client gets when served alone.
\* The failed thread's handle is swept by the next execute, which starts a
\* thread exactly when fewer than max_connections handles belong to threads
\* that have not ended, however the others ended.
C14_FailureIsolated ==
    /\ [](accepted < Len(peers) => ENABLED Execute)
    /\ [][\A c \in Conns :
            (~Failed(c) /\ Failed(c)') =>
                \A d \in Conns \ {c} :
                    /\ pc'[d] = pc[d] /\ request'[d] = request[d]
                    /\ response'[d] = response[d] /\ wire'[d] = wire[d]]_vars
    /\ [](\A d \in Conns :
            Responded(d) => /\ parse_request(peers[d]).tag = "Ok"
                            /\ Len(wire[d]) = 1
                            /\ wire[d][1] \in Alone(peers[d]))
    /\ [][\A c \in Conns :
            (accepted' = c /\ accepted = c - 1) =>
                /\ pc'[c] = "decode" <=> Cardinality(Live) < max_connections
                /\ \A h \in Range(current_connections) :
                      Failed(h) => h \notin Range(current_connections')]_vars

\* C14 witness: capacity 1; the first thread panicked, the second ended on an
\* Err, and the third connection, admitted after both, has its response.
C14_Witness ==
    /\ max_connections = 1
    /\ pc[1] = "panicked"
    /\ pc[2] = "finished" /\ wire[2] = <<>>
    /\ accepted >= 3 /\ Responded(3)
    /\ current_connections = <<3>>

----------------------------------------------------------------------------
(* The echo route.                                                         *)

\* A complete request GET /echo/<s>, s without "/", sent without
\* Accept-Encoding; Echoed is s.
EchoRequest(peer) ==
    /\ WellFormed(peer, <<"GET">>)
    /\ Len(StatusTokens(peer)[2]) >= 3
    /\ SubSeq(StatusTokens(peer)[2], 1, 3) = <<"/", "echo", "/">>
    /\ \A i \in 4..Len(StatusTokens(peer)[2]) : StatusTokens(peer)[2][i] # "/"
    /\ AcceptEncodingValues(peer) = {}
Echoed(peer) == SubSeq(StatusTokens(peer)[2], 4, Len(StatusTokens(peer)[2]))
\* The response 200, text/plain, with this body and its length.
TextResponse(body) ==
    [status_line |-> StatusLineOf("200 OK"),
     headers |-> {<<"Content-Type", ":", " ", "text/plain", "\r\n">>,
                  <<"Content-Length", ":", " ", ToString(Len(body)), "\r\n">>},
     body |-> body]

\* C15 (the claim as stated): for any string s without "/", GET /echo/<s>
\* sent without Accept-Encoding is answered 200 with body exactly s,
\* Content-Type: text/plain and Content-Length the length of s.
C15_EchoAny ==
    \A c \in Conns :
        (EchoRequest(peers[c]) /\ Terminated(c))
        => Responded(c) /\ wire[c] = <<TextResponse(Echoed(peers[c]))>>

\* C15 (amended): for any non-empty string s without "/", GET /echo/<s> sent
\* without Accept-Encoding is answered 200 with body exactly s, Content-Type:
\* text/plain and Content-Length the length of s, and with no other header.
C15_EchoNonEmpty ==
    \A c \in Conns :
        (EchoRequest(peers[c]) /\ Echoed(peers[c]) # <<>> /\ Terminated(c))
        => Responded(c) /\ wire[c] = <<TextResponse(Echoed(peers[c]))>>

\* C15 witness: GET /echo/abc has been answered with the three bytes abc.
C15_Witness ==
    \E c \in Conns :
        /\ EchoRequest(peers[c])
        /\ Echoed(peers[c]) = <<"a", "b", "c">>
        /\ Responded(c)
        /\ wire[c][1].body = <<"a", "b", "c">>
        /\ <<"Content-Length", ":", " ", "3", "\r\n">> \in wire[c][1].headers

\* C16: execute first removes every handle whose thread has ended, so a slot
\* is reusable: when the set holds max_connections handles and at least one
\* of their threads has ended, the next execute starts a thread for the new
\* connection, and leaves in the set the handles of the running threads
\* followed by the new one.
C16_SlotReuse ==
    [][\A c \in Conns :
          (accepted' = c /\ accepted = c - 1) =>
              /\ \A h \in Range(current_connections) :
                    Terminated(h) => h \notin Range(current_connections')
              /\ (/\ Len(current_connections) = max_connections
                  /\ \E h \in Range(current_connections) : Terminated(h))
                 => /\ pc'[c] = "decode"
                    /\ current_connections' =
                          Append(SelectSeq(current_connections, LAMBDA h : ~Terminated(h)), c)]_vars

\* C16 witness: capacity 2; the set held the first two connections, the first
\* thread ended, and execute gave its slot to the third connection while the
\* second thread still runs.
C16_Witness ==
    /\ max_connections = 2
    /\ accepted = 3
    /\ Terminated(1) /\ ~Terminated(2)
    /\ pc[3] = "decode"
    /\ current_connections = <<2, 3>>

\* The client never sends the blank line that ends the header block.
Stalled(peer) == ~EndsHeaderBlock(peer)
\* It also keeps its side of the connection open.
StalledOpen(peer) == Stalled(peer) /\ ~peer.close

C18_SetOwnedByExecute ==
    /\ [][\A c \in Conns :
            (pc[c] \in {"decode", "route", "negotiate", "encode"} /\ pc'[c] # pc[c])
            => /\ current_connections' = current_connections
               /\ max_connections' = max_connections]_vars
    /\ [][accepted' = accepted => current_connections' = current_connections]_vars
    /\ [][max_connections' = max_connections]_vars
    /\ [](\A c \in Conns :
            (Terminated(c) /\ accepted = c) => c \in Range(current_connections))

\* C18 witness: a thread has written its response and ended, no execute has
\* run since it was started, and its handle is still in the set.
C18_Witness ==
    \E c \in Conns :
        /\ Responded(c)
        /\ accepted = c
        /\ c \in Range(current_connections)

----------------------------------------------------------------------------
(* The negotiator.                                                         *)

\* The body is one gzip member as GzEncoder writes it.
IsGzip(body) == Len(body) >= 20 /\ body = GzEncode(SubSeq(body, 12, Len(body) - 9))

\* C19: Content-Encoding is set by integrate_request only.  The response a
\* route handler hands over never has the header; integrate_request adds it
\* exactly when it replaces the body by its gzip encoding, which it does
\* exactly when the decoded request has an Accept-Encoding header left after
\* normalisation, and otherwise it returns the response unchanged; so a
\* response on the wire has Content-Encoding exactly when its body is gzip.
C19_EncodingByNegotiator ==
    /\ [](\A c \in Conns :
            /\ pc[c] = "negotiate" => ~contains_key(response[c].headers, ContentEncoding)
            /\ Responded(c) => ("Content-Encoding" \in HeaderNames(wire[c][1])
                                  <=> IsGzip(wire[c][1].body)))
    /\ [][\A c \in Conns :
            (pc[c] = "negotiate" /\ pc'[c] = "encode") =>
                LET present == contains_key(request[c].headers, AcceptEncoding)
                IN  /\ contains_key(response'[c].headers, ContentEncoding) <=> present
                    /\ response'[c].body = GzEncode(response[c].body) <=> present
                    /\ ~present => response'[c] = response[c]]_vars

\* C19 witness: a client that accepts gzip has its response, which has
\* Content-Encoding and whose body is the gzip encoding of the echoed abc.
C19_Witness ==
    \E c \in Conns :
        /\ Responded(c)
        /\ "Content-Encoding" \in HeaderNames(wire[c][1])
        /\ wire[c][1].body = GzEncode(<<"a", "b", "c">>)
        /\ AcceptsGzip(peers[c])

\* C20: in every Request parse_request returns, Accept-Encoding is absent or
\* has a value that parse_content_encoding maps to a non-empty list, whatever
\* the client sent; so the unwrap of integrate_request never meets None and
\* the negotiate step never ends the thread by a panic.
C20_NegotiatorNeverAborts ==
    /\ [](\A c \in Conns :
            pc[c] \in {"route", "negotiate"} =>
                LET value == get(request[c].headers, AcceptEncoding)
                IN  \/ ~IsSome(value)
                    \/ /\ IsSome(parse_content_encoding(Unwrap(value)))
                       /\ Unwrap(parse_content_encoding(Unwrap(value))) # <<>>)
    /\ [][\A c \in Conns :
            pc[c] = "negotiate" => pc'[c] \in {"negotiate", "encode"}]_vars

\* C20 witness: a client sent a list mixing gzip with unsupported tokens;
\* its request was decoded with the header rewritten to the supported ones,
\* and its thread has passed the negotiate step and holds the encoded
\* response.
C20_Witness ==
    \E c \in Conns :
        /\ pc[c] = "encode"
        /\ AcceptsGzip(peers[c])
        /\ Unwrap(LastAcceptEncoding(peers[c])) = <<"gzip", ",", " ", "bogus">>
        /\ get(response[c].headers, ContentEncoding) = Some(<<"gzip">>)

====
